---- MODULE Spec2Model ----
(***************************************************************************)
(* Expense tracker: the validated ledger operations of the HTTP API        *)
(* (backend/api.py) and of the interactive menu (src/app.py) over one      *)
(* `expenses` table, and the aggregation queries computed from it.         *)
(*                                                                         *)
(* Text is modelled as a sequence of one-character strings, so that date   *)
(* parsing and formatting are computed character by character.             *)
(* Amounts are integers (hundredths of the currency unit).                 *)
(*                                                                         *)
(* The API opens a connection in every endpoint and closes it in `finally`.*)
(* The menu opens one connection in main and keeps it until the loop ends; *)
(* what it executed and did not commit stays in that connection's          *)
(* transaction.                                                            *)
(***************************************************************************)
EXTENDS Integers, Sequences, FiniteSets

VARIABLES
    table,       \* the committed rows of `expenses`: a set of records
    nextId,      \* the store's AUTO_INCREMENT counter for `id`
    usedIds,     \* history: every id the store ever assigned
    deletedIds,  \* history: every id whose row was deleted
    last,        \* the last operation: its inputs, its outcome and what it returned
    pending,     \* the menu connection's open transaction: rows inserted and ids
                 \* deleted but not committed
    menuConn,    \* the connection main holds: "closed" or "open"
    apiOpen,     \* the number of connections the API has opened and not closed
    failed       \* history: the id and front end of every create whose INSERT
                 \* ran and whose commit raised

vars == <<table, nextId, usedIds, deletedIds, last, pending, menuConn, apiOpen, failed>>

----------------------------------------------------------------------------
(* Bounds of the model.                                                    *)

\* Creates stop once the store has assigned this many ids.
MaxId == 2

\* The largest ledger the query specification starts from.
MaxLedger == 3

----------------------------------------------------------------------------
(* Characters, digits, sequences.                                          *)

Digits == <<"0", "1", "2", "3", "4", "5", "6", "7", "8", "9">>

IsDigit(c) == \E i \in 1..10 : Digits[i] = c

DigitVal(c) == (CHOOSE i \in 1..10 : Digits[i] = c) - 1

DigitChar(n) == Digits[n + 1]

\* s[p] is a digit of the class lo..hi (a regex class such as [0-2]).
InClass(s, p, lo, hi) ==
    /\ p >= 1
    /\ p <= Len(s)
    /\ IsDigit(s[p])
    /\ DigitVal(s[p]) >= lo
    /\ DigitVal(s[p]) <= hi

CharAt(s, p, c) == p >= 1 /\ p <= Len(s) /\ s[p] = c

\* total = 0; for ...: total += amount, over a sequence of rows.
RECURSIVE SumSeq(_)
SumSeq(q) == IF q = <<>> THEN 0 ELSE Head(q).amount + SumSeq(Tail(q))

\* SUM(amount) over a set of rows.
RECURSIVE SumAmount(_)
SumAmount(S) ==
    IF S = {} THEN 0
    ELSE LET r == CHOOSE x \in S : TRUE IN r.amount + SumAmount(S \ {r})

RECURSIVE Gcd(_, _)
Gcd(a, b) == IF b = 0 THEN a ELSE Gcd(b, a % b)

----------------------------------------------------------------------------
(* Dates: datetime.strptime(s, '%Y-%m-%d') as validate_date uses it.       *)
(* strptime matches the regular expression                                 *)
(*   (?P<Y>\d\d\d\d)-(?P<m>1[0-2]|0[1-9]|[1-9])-                            *)
(*   (?P<d>3[0-1]|[1-2]\d|0[1-9]|[1-9]| [1-9])                             *)
(* at the start of the string, rejects unconverted trailing text, and      *)
(* then builds the date, which rejects a day the month does not have.      *)

NoMatch == 0

\* %d at position p: the position after the first alternative that matches.
MatchDay(s, p) ==
    IF InClass(s, p, 3, 3) /\ InClass(s, p + 1, 0, 1) THEN p + 2
    ELSE IF InClass(s, p, 1, 2) /\ InClass(s, p + 1, 0, 9) THEN p + 2
    ELSE IF InClass(s, p, 0, 0) /\ InClass(s, p + 1, 1, 9) THEN p + 2
    ELSE IF InClass(s, p, 1, 9) THEN p + 1
    ELSE IF CharAt(s, p, " ") /\ InClass(s, p + 1, 1, 9) THEN p + 2
    ELSE NoMatch

\* "-" and %d after a month that ends before position q.
MatchAfterMonth(s, q) ==
    IF CharAt(s, q, "-") THEN MatchDay(s, q + 1) ELSE NoMatch

\* %m at position p, then the rest: the alternatives in order, backtracking
\* to the next one when the rest does not match. <<month end, match end>>.
MatchMonth(s, p) ==
    IF InClass(s, p, 1, 1) /\ InClass(s, p + 1, 0, 2)
          /\ MatchAfterMonth(s, p + 2) # NoMatch
    THEN <<p + 2, MatchAfterMonth(s, p + 2)>>
    ELSE IF InClass(s, p, 0, 0) /\ InClass(s, p + 1, 1, 9)
          /\ MatchAfterMonth(s, p + 2) # NoMatch
    THEN <<p + 2, MatchAfterMonth(s, p + 2)>>
    ELSE IF InClass(s, p, 1, 9) /\ MatchAfterMonth(s, p + 1) # NoMatch
    THEN <<p + 1, MatchAfterMonth(s, p + 1)>>
    ELSE <<NoMatch, NoMatch>>

\* %Y- at the start, then %m-%d: <<month end, match end>>.
MatchFormat(s) ==
    IF /\ \A p \in 1..4 : InClass(s, p, 0, 9)
       /\ CharAt(s, 5, "-")
    THEN MatchMonth(s, 6)
    ELSE <<NoMatch, NoMatch>>

\* int() of the digits of s from position a up to, not including, b;
\* a space (the " [1-9]" day) counts as nothing.
RECURSIVE IntOf(_, _, _)
IntOf(s, a, b) ==
    IF a >= b THEN 0
    ELSE IF IsDigit(s[b - 1]) THEN 10 * IntOf(s, a, b - 1) + DigitVal(s[b - 1])
    ELSE IntOf(s, a, b - 1)

IsLeap(y) == (y % 4 = 0) /\ ((y % 100 # 0) \/ (y % 400 = 0))

DaysInMonth(y, m) ==
    IF m = 2 THEN (IF IsLeap(y) THEN 29 ELSE 28)
    ELSE IF m \in {4, 6, 9, 11} THEN 30
    ELSE 31

\* datetime.strptime(s, '%Y-%m-%d'): the date, or ok = FALSE for ValueError.
strptime(s) ==
    LET me == MatchFormat(s)
        y == IntOf(s, 1, 5)
        m == IntOf(s, 6, me[1])
        d == IntOf(s, me[1] + 1, me[2])
    IN
    IF me[2] = NoMatch \/ me[2] # Len(s) + 1
    THEN [ok |-> FALSE, y |-> 0, m |-> 0, d |-> 0]
    ELSE IF y < 1 \/ d > DaysInMonth(y, m)
    THEN [ok |-> FALSE, y |-> 0, m |-> 0, d |-> 0]
    ELSE [ok |-> TRUE, y |-> y, m |-> m, d |-> d]

\* The date texts the operations are tried with.
D_2024_01_01 == <<"2", "0", "2", "4", "-", "0", "1", "-", "0", "1">>
D_2024_01_02 == <<"2", "0", "2", "4", "-", "0", "1", "-", "0", "2">>
D_2024_1_2 == <<"2", "0", "2", "4", "-", "1", "-", "2">>
D_2024_13_01 == <<"2", "0", "2", "4", "-", "1", "3", "-", "0", "1">>

\* The texts validate_date alone is tried with: a year, a separator, a month,
\* a separator and a day, each from a few well-formed and malformed spellings,
\* and a date with a space after it, with a space before it, and no text.
YearParts ==
    { <<"2", "0", "2", "4">>, <<"2", "0", "2", "3">>, <<"1", "9", "0", "0">>,
      <<"0", "2", "4">> }
SepParts == { <<"-">>, <<"/">> }
MonthParts ==
    { <<"0", "1">>, <<"1">>, <<"0", "2">>, <<"1", "2">>, <<"1", "3">>, <<"0", "0">> }
DayParts ==
    { <<"0", "1">>, <<"1">>, <<" ", "5">>, <<"2", "9">>, <<"3", "0">>, <<"3", "1">>,
      <<"3", "2">> }

DateStrings ==
    { y \o a \o m \o b \o d :
        y \in YearParts, a \in SepParts, m \in MonthParts, b \in SepParts,
        d \in DayParts }
    \cup { D_2024_01_01 \o <<" ">>, <<" ">> \o D_2024_01_01, <<>> }

DateTexts ==
    DateStrings \cup {D_2024_01_01, D_2024_01_02, D_2024_1_2, D_2024_13_01}

\* strptime tabulated over the date texts.
Parsed == [s \in DateTexts |-> strptime(s)]

\* validate_date of backend/api.py and of src/app.py (the same code):
\* True when strptime returns, False when it raises ValueError.
validate_date(s) == Parsed[s].ok

\* The DATE the store keeps for a date text that passed validate_date.
StoreDate(s) == [y |-> Parsed[s].y, m |-> Parsed[s].m, d |-> Parsed[s].d]

\* str(date) / DATE_FORMAT(date, '%Y-%m-%d'): zero-padded YYYY-MM-DD.
FormatDate(dt) ==
    << DigitChar(dt.y \div 1000), DigitChar((dt.y \div 100) % 10),
       DigitChar((dt.y \div 10) % 10), DigitChar(dt.y % 10), "-",
       DigitChar(dt.m \div 10), DigitChar(dt.m % 10), "-",
       DigitChar(dt.d \div 10), DigitChar(dt.d % 10) >>

\* The order of the DATE column.
DateNum(dt) == dt.y * 10000 + dt.m * 100 + dt.d

----------------------------------------------------------------------------
(* The fixed categories and the validators.                                *)

CATEGORIES ==
    <<"Food", "Transport", "Bills", "Entertainment", "Shopping", "Healthcare", "Other">>

CategorySet == {CATEGORIES[i] : i \in 1..Len(CATEGORIES)}

\* Text typed at a prompt: a decimal numeral (with its value) or other text.
Num(n) == [num |-> TRUE, val |-> n, txt |-> ""]
Word(w) == [num |-> FALSE, val |-> 0, txt |-> w]

\* str.isdigit(): digits only, so no sign.
isdigit(t) == t.num /\ t.val >= 0

\* A variant of validate_amount that lets zero through.
validate_amount_nonneg(amount) == amount >= 0

\* backend/api.py validate_amount: the amount is already a float.
validate_amount(amount) == amount > 0

\* src/app.py validate_amount: float(text) may raise ValueError.
app_validate_amount(t) == IF t.num THEN t.val > 0 ELSE FALSE

\* Python None, as select_category returns it.
None == ""

\* src/app.py select_category, given the text typed at "Select (1-7)".
select_category(choice) ==
    IF isdigit(choice) /\ 1 <= choice.val /\ choice.val <= Len(CATEGORIES)
    THEN CATEGORIES[choice.val]
    ELSE None

----------------------------------------------------------------------------
(* The store: the `expenses` table.                                        *)

Ids(t) == {r.id : r \in t}

\* INSERT INTO expenses (date, category, amount, description): the store
\* converts the date text to a DATE and assigns the id.
InsertRow(id, date, category, amount, description) ==
    [id |-> id, date |-> StoreDate(date), category |-> category,
     amount |-> amount, description |-> description]

\* A variant of DeleteWhereId that deletes nothing.
DeleteWhereIdNone(t, id) == t

\* A variant of DeleteWhereId that compares with <= (WHERE id <= %s).
DeleteWhereIdUpTo(t, id) == {r \in t : r.id > id}

\* DELETE FROM expenses WHERE id = %s: the rows that stay.
DeleteWhereId(t, id) == {r \in t : r.id # id}

\* cursor.rowcount after the DELETE.
RowCount(t, id) == Cardinality({r \in t : r.id = id})

\* A variant of NextAutoId that hands out the smallest id not in the table.
NextAutoIdReuse(t, counter) == CHOOSE i \in 1..(Cardinality(t) + 1) : i \notin Ids(t)

\* The id AUTO_INCREMENT gives the inserted row (cursor.lastrowid).
NextAutoId(t, counter) == counter

\* A transaction with nothing in it.
NoPending == [ins |-> {}, del |-> {}]

\* What a connection reads while its transaction p is open: the committed
\* rows and its own uncommitted changes.
View(t, p) == {r \in t : r.id \notin p.del} \cup p.ins

\* db.commit(): the committed rows once the transaction p is committed.
Commit(t, p) == {r \in t : r.id \notin p.del} \cup p.ins

\* The ids the open transaction p holds locked against other connections.
Locked(p) == p.del \cup Ids(p.ins)

\* The transaction p after INSERT of row r.
TxInsert(p, r) == [ins |-> p.ins \cup {r}, del |-> p.del]

\* The transaction p after DELETE ... WHERE id = id matched a row.
TxDelete(p, id) ==
    IF id \in Ids(p.ins)
    THEN [ins |-> {r \in p.ins : r.id # id}, del |-> p.del]
    ELSE [ins |-> p.ins, del |-> p.del \cup {id}]

\* get_db_connection(): the connections the call holds afterwards (none when
\* mysql.connector.connect raised and None was returned).
get_db_connection(fault) == IF fault = "connect" THEN 0 ELSE 1

\* A variant of finally_close that closes only when the endpoint returns a
\* value, not when it raises.
close_on_return(held, outcome) ==
    IF outcome \in {"NotFound", "StorageError"} THEN held ELSE 0

\* finally: cursor.close(); db.close() - the connections the endpoint still
\* holds when it returns or raises.
finally_close(held, outcome) == 0

\* ORDER BY date DESC over a set of rows: every order the store may return
\* (rows of one date come in any order).
OrderByDateDesc(S) ==
    LET n == Cardinality(S) IN
    { q \in [1..n -> S] :
        /\ \A i, j \in 1..n : i # j => q[i] # q[j]
        /\ \A i, j \in 1..n : i < j => DateNum(q[i].date) >= DateNum(q[j].date) }

\* A variant of ExpenseJson that returns the date without zero padding.
ExpenseJsonUnpadded(r) ==
    [id |-> r.id,
     date |-> << DigitChar(r.date.y \div 1000), DigitChar((r.date.y \div 100) % 10),
                 DigitChar((r.date.y \div 10) % 10), DigitChar(r.date.y % 10), "-",
                 DigitChar(r.date.m % 10), "-", DigitChar(r.date.d % 10) >>,
     category |-> r.category, amount |-> r.amount, description |-> r.description]

\* get_expenses: one fetched row as the dictionary returned.
ExpenseJson(r) ==
    [id |-> r.id, date |-> FormatDate(r.date), category |-> r.category,
     amount |-> r.amount, description |-> r.description]

----------------------------------------------------------------------------
(* What an operation leaves in `last`.                                     *)

NoId == 0
NoReq == [date |-> <<>>, category |-> "", amount |-> 0, numeric |-> TRUE,
          description |-> ""]
Req(date, category, amount, numeric, description) ==
    [date |-> date, category |-> category, amount |-> amount,
     numeric |-> numeric, description |-> description]

\* op: the operation; fe: the front end; req: the fields the request gave;
\* id: the id returned or targeted; outcome and field: the result variant and
\* the field or fault it names; result: the rows returned; before: the table
\* when the operation began; stmts: the statements it sent to the store, in
\* order; prev: what the operation before it left, where a property relates
\* the two.
Op(op, fe, req, id, outcome, field, result, before, stmts, prev) ==
    [op |-> op, fe |-> fe, req |-> req, id |-> id, outcome |-> outcome,
     field |-> field, result |-> result, before |-> before, stmts |-> stmts,
     prev |-> prev]

\* The statements sent before a fault: none when the connection failed, the
\* first one when its execution raised.
Sent(fault, first) == IF fault = "connect" THEN <<>> ELSE <<first>>

NoPrev == [id |-> NoId, req |-> NoReq, before |-> {}, category |-> ""]

NoOp == Op("none", "", NoReq, NoId, "", "", <<>>, {}, <<>>, NoPrev)

\* The create that came immediately before, if it succeeded.
PrevCreate ==
    IF last.op = "create" /\ last.outcome = "Created"
    THEN [id |-> last.id, req |-> last.req, before |-> last.before, category |-> ""]
    ELSE NoPrev

\* The insights that came immediately before, if they named a category.
PrevInsights ==
    IF last.op = "insights" /\ last.outcome = "Ok"
    THEN [id |-> NoId, req |-> NoReq, before |-> last.before,
          category |-> last.result.most_common_category]
    ELSE NoPrev

----------------------------------------------------------------------------
(* The inputs the operations are tried with.                               *)

\* Requests every validator accepts.
GoodDates == {D_2024_01_01, D_2024_1_2}
GoodCategories == {"Food", "Transport"}
GoodAmounts == {500, 1000}
DescriptionInputs == {"", "lunch"}

\* Requests in which any subset of the three checked fields is bad
\* ("food" differs from a category only in case).
ProbeDates == {D_2024_01_01, D_2024_13_01}
ProbeCategories == {"Food", "food"}
ProbeAmounts == {500, 0, -500}

\* The body of POST /api/expenses (ExpenseCreate).
ExpenseCreate ==
    [date : GoodDates, category : GoodCategories, amount : GoodAmounts,
     description : DescriptionInputs]
    \cup
    [date : ProbeDates, category : ProbeCategories, amount : ProbeAmounts,
     description : {""}]

\* What is typed at the menu's prompts for choice 1:
\* <<date, category choice, amount, description>>.
MenuAddInputs ==
    (GoodDates \X {Num(1), Num(2)} \X {Num(500), Num(1000)} \X DescriptionInputs)
    \cup
    (ProbeDates \X {Num(1), Num(8), Word("x")}
        \X {Num(500), Num(0), Num(-500), Word("abc")} \X {""})

\* What is typed at the menu's id prompt.
IdTexts == {Num(i) : i \in 1..(MaxId + 1)} \cup {Word("c"), Word("x")}

\* Where a storage call may raise mysql.connector.Error: opening the
\* connection, executing the first statement, or (CommitFaults) the commit.
ApiFaults == {"none", "connect", "execute"}
MenuFaults == {"none", "execute"}
ApiCommitFaults == ApiFaults \cup {"commit"}
MenuCommitFaults == MenuFaults \cup {"commit"}

----------------------------------------------------------------------------
(* backend/api.py: POST, DELETE and GET /api/expenses.                     *)

\* A variant of CreateCheck that leaves the category unchecked.
CreateCheckNoCategory(e) ==
    IF ~validate_date(e.date) THEN "date"
    ELSE IF ~validate_amount(e.amount) THEN "amount"
    ELSE "ok"

\* The outcome of create_expense's checks, in the order the code makes them.
CreateCheck(e) ==
    IF ~validate_date(e.date) THEN "date"
    ELSE IF ~validate_amount(e.amount) THEN "amount"
    ELSE IF e.category \notin CategorySet THEN "category"
    ELSE "ok"

\* An endpoint that raised before or while it executed its first statement:
\* nothing is changed, and the connection it opened is closed.
ApiRaised(l, fault) ==
    /\ last' = l
    /\ apiOpen' = apiOpen + finally_close(get_db_connection(fault), l.outcome)
    /\ UNCHANGED <<table, nextId, usedIds, deletedIds, pending, menuConn, failed>>

\* POST /api/expenses, with the faults the store may raise.
create_expense(e, faults) ==
    LET req == Req(e.date, e.category, e.amount, TRUE, e.description)
        check == CreateCheck(e)
        id == NextAutoId(table, nextId)
    IN
    IF check # "ok" THEN
        /\ last' = Op("create", "api", req, NoId, "ValidationError", check, <<>>,
                      table, <<>>, NoPrev)
        /\ UNCHANGED <<table, nextId, usedIds, deletedIds, pending, menuConn,
                       apiOpen, failed>>
    ELSE
        \E fault \in faults :
            IF fault \in {"connect", "execute"} THEN
                ApiRaised(Op("create", "api", req, NoId, "StorageError", fault,
                             <<>>, table, Sent(fault, "INSERT"), NoPrev), fault)
            ELSE IF fault = "commit" THEN
                \* the INSERT took an id; db.close() discards the uncommitted row
                /\ nextId <= MaxId
                /\ nextId' = nextId + 1
                /\ usedIds' = usedIds \cup {id}
                /\ failed' = failed \cup {[id |-> id, fe |-> "api"]}
                /\ last' = Op("create", "api", req, NoId, "StorageError", fault,
                              <<>>, table, <<"INSERT", "COMMIT">>, NoPrev)
                /\ apiOpen' = apiOpen
                      + finally_close(get_db_connection(fault), "StorageError")
                /\ UNCHANGED <<table, deletedIds, pending, menuConn>>
            ELSE
                /\ nextId <= MaxId
                /\ table' = table \cup
                      {InsertRow(id, e.date, e.category, e.amount, e.description)}
                /\ nextId' = nextId + 1
                /\ usedIds' = usedIds \cup {id}
                /\ last' = Op("create", "api", req, id, "Created", "", <<>>, table,
                              <<"INSERT", "COMMIT">>, NoPrev)
                /\ apiOpen' = apiOpen
                      + finally_close(get_db_connection(fault), "Created")
                /\ UNCHANGED <<deletedIds, pending, menuConn, failed>>

\* DELETE /api/expenses/{expense_id}. A row the menu's open transaction
\* inserted or deleted is locked: the DELETE waits and the store raises.
api_delete_expense(expense_id, fault) ==
    IF fault \in {"connect", "execute"} THEN
        ApiRaised(Op("delete", "api", NoReq, expense_id, "StorageError", fault,
                     <<>>, table, Sent(fault, "DELETE"), NoPrev), fault)
    ELSE IF expense_id \in Locked(pending) THEN
        ApiRaised(Op("delete", "api", NoReq, expense_id, "StorageError", "lock",
                     <<>>, table, <<"DELETE">>, NoPrev), fault)
    ELSE IF RowCount(table, expense_id) = 0 THEN
        ApiRaised(Op("delete", "api", NoReq, expense_id, "NotFound", "", <<>>,
                     table, <<"DELETE">>, NoPrev), fault)
    ELSE IF fault = "commit" THEN
        ApiRaised(Op("delete", "api", NoReq, expense_id, "StorageError", fault,
                     <<>>, table, <<"DELETE", "COMMIT">>, NoPrev), fault)
    ELSE
        /\ table' = DeleteWhereId(table, expense_id)
        /\ deletedIds' = deletedIds \cup {expense_id}
        /\ last' = Op("delete", "api", NoReq, expense_id, "Deleted", "", <<>>,
                      table, <<"DELETE", "COMMIT">>, NoPrev)
        /\ apiOpen' = apiOpen + finally_close(get_db_connection(fault), "Deleted")
        /\ UNCHANGED <<nextId, usedIds, pending, menuConn, failed>>

\* GET /api/expenses.
get_expenses(fault) ==
    /\ IF fault # "none" THEN
          last' = Op("list", "api", NoReq, NoId, "StorageError", fault, <<>>, table,
                     Sent(fault, "SELECT"), NoPrev)
       ELSE
          \E q \in OrderByDateDesc(table) :
              last' = Op("list", "api", NoReq, NoId, "Ok", "",
                         [i \in 1..Len(q) |-> ExpenseJson(q[i])], table,
                         <<"SELECT">>, PrevCreate)
    /\ apiOpen' = apiOpen + finally_close(get_db_connection(fault),
                                          IF fault # "none" THEN "StorageError"
                                          ELSE "Ok")
    /\ UNCHANGED <<table, nextId, usedIds, deletedIds, pending, menuConn, failed>>

----------------------------------------------------------------------------
(* src/app.py: main's connection, menu choices 1 (add) and 4 (delete).     *)

\* A menu function that printed and returned without a commit.
MenuPrinted(l) ==
    /\ last' = l
    /\ UNCHANGED <<table, nextId, usedIds, deletedIds, pending, menuConn, apiOpen,
                   failed>>

\* main up to the loop: get_db_connection(); on failure it prints and returns.
main_start(fault) ==
    /\ menuConn = "closed"
    /\ menuConn' = IF get_db_connection(fault) = 0 THEN "closed" ELSE "open"
    /\ last' = Op("main", "menu", NoReq, NoId,
                  IF get_db_connection(fault) = 0 THEN "StorageError"
                  ELSE "Connected",
                  IF fault = "connect" THEN fault ELSE "", <<>>, table, <<>>, NoPrev)
    /\ UNCHANGED <<table, nextId, usedIds, deletedIds, pending, apiOpen, failed>>

\* main, choice 7: the loop breaks and finally closes the cursor and the
\* connection; the store discards what the connection had not committed.
main_exit ==
    /\ menuConn = "open"
    /\ menuConn' = "closed"
    /\ pending' = NoPending
    /\ last' = Op("exit", "menu", NoReq, NoId, "Closed", "", <<>>, table, <<>>,
                  NoPrev)
    /\ UNCHANGED <<table, nextId, usedIds, deletedIds, apiOpen, failed>>

\* main, choice 1: the prompts in order, each read only when the one before
\* passed, then add_expense. A commit that raises is printed and nothing
\* more is done: the INSERT stays in the connection's transaction unless the
\* store itself rolled the transaction back.
menu_add(date, choice, amount_input, description, faults) ==
    LET category == select_category(choice)
        id == NextAutoId(table, nextId)
        req == Req(date, category, amount_input.val, TRUE, description)
        row == InsertRow(id, date, category, amount_input.val, description)
    IN
    /\ menuConn = "open"
    /\ IF ~validate_date(date) THEN
           MenuPrinted(Op("create", "menu", Req(date, "", 0, TRUE, ""), NoId,
                          "ValidationError", "date", <<>>, table, <<>>, NoPrev))
       ELSE IF category = None THEN
           MenuPrinted(Op("create", "menu", Req(date, None, 0, TRUE, ""), NoId,
                          "ValidationError", "category", <<>>, table, <<>>, NoPrev))
       ELSE IF ~app_validate_amount(amount_input) THEN
           MenuPrinted(Op("create", "menu",
                          Req(date, category, amount_input.val, amount_input.num, ""),
                          NoId, "ValidationError", "amount", <<>>, table, <<>>,
                          NoPrev))
       ELSE
           \E fault \in faults :
               IF fault = "execute" THEN
                   MenuPrinted(Op("create", "menu", req, NoId, "StorageError", fault,
                                  <<>>, table, Sent(fault, "INSERT"), NoPrev))
               ELSE IF fault = "commit" THEN
                   /\ nextId <= MaxId
                   /\ nextId' = nextId + 1
                   /\ usedIds' = usedIds \cup {id}
                   /\ failed' = failed \cup {[id |-> id, fe |-> "menu"]}
                   /\ \E rolled_back \in BOOLEAN :
                         pending' = IF rolled_back THEN NoPending
                                    ELSE TxInsert(pending, row)
                   /\ last' = Op("create", "menu", req, NoId, "StorageError", fault,
                                 <<>>, table, <<"INSERT", "COMMIT">>, NoPrev)
                   /\ UNCHANGED <<table, deletedIds, menuConn, apiOpen>>
               ELSE
                   /\ nextId <= MaxId
                   /\ table' = Commit(table, TxInsert(pending, row))
                   /\ pending' = NoPending
                   /\ nextId' = nextId + 1
                   /\ usedIds' = usedIds \cup {id}
                   /\ deletedIds' = deletedIds \cup pending.del
                   /\ last' = Op("create", "menu", req, id, "Created", "", <<>>,
                                 table, <<"INSERT", "COMMIT">>, NoPrev)
                   /\ UNCHANGED <<menuConn, apiOpen, failed>>

\* delete_expense(cursor, db), given the text typed at the id prompt.
menu_delete_expense(expense_id, fault) ==
    LET seen == View(table, pending) IN
    /\ menuConn = "open"
    /\ IF fault = "execute" THEN
           MenuPrinted(Op("delete", "menu", NoReq, NoId, "StorageError", fault, <<>>,
                          table, Sent(fault, "SELECT"), NoPrev))
       ELSE IF seen = {} THEN
           MenuPrinted(Op("delete", "menu", NoReq, NoId, "NoExpenses", "", <<>>,
                          table, <<"SELECT">>, NoPrev))
       ELSE IF ~expense_id.num /\ expense_id.txt \in {"c", "C"} THEN
           MenuPrinted(Op("delete", "menu", NoReq, NoId, "Cancelled", "", <<>>,
                          table, <<"SELECT">>, NoPrev))
       ELSE IF ~isdigit(expense_id) THEN
           MenuPrinted(Op("delete", "menu", NoReq, NoId, "InvalidId", "", <<>>,
                          table, <<"SELECT">>, NoPrev))
       ELSE IF RowCount(seen, expense_id.val) > 0 THEN
           IF fault = "commit" THEN
               /\ \E rolled_back \in BOOLEAN :
                     pending' = IF rolled_back THEN NoPending
                                ELSE TxDelete(pending, expense_id.val)
               /\ last' = Op("delete", "menu", NoReq, expense_id.val, "StorageError",
                             fault, <<>>, table, <<"SELECT", "DELETE", "COMMIT">>,
                             NoPrev)
               /\ UNCHANGED <<table, nextId, usedIds, deletedIds, menuConn, apiOpen,
                              failed>>
           ELSE
               /\ table' = Commit(table, TxDelete(pending, expense_id.val))
               /\ pending' = NoPending
               /\ deletedIds' = deletedIds \cup pending.del \cup {expense_id.val}
               /\ last' = Op("delete", "menu", NoReq, expense_id.val, "Deleted", "",
                             <<>>, table, <<"SELECT", "DELETE", "COMMIT">>, NoPrev)
               /\ UNCHANGED <<nextId, usedIds, menuConn, apiOpen, failed>>
       ELSE
           MenuPrinted(Op("delete", "menu", NoReq, expense_id.val, "NotFound", "",
                          <<>>, table, <<"SELECT", "DELETE">>, NoPrev))

----------------------------------------------------------------------------
(* The ledger: creates, deletes and listings through either front end,     *)
(* with every commit that is issued succeeding.                            *)

Init ==
    /\ table = {}
    /\ nextId = 1
    /\ usedIds = {}
    /\ deletedIds = {}
    /\ last = NoOp
    /\ pending = NoPending
    /\ menuConn = "closed"
    /\ apiOpen = 0
    /\ failed = {}

ApiCreate == \E e \in ExpenseCreate : create_expense(e, ApiFaults)

ApiDelete ==
    \E expense_id \in 1..(MaxId + 1), fault \in ApiFaults :
        api_delete_expense(expense_id, fault)

ApiList == \E fault \in ApiFaults : get_expenses(fault)

MainStart == \E fault \in {"none", "connect"} : main_start(fault)

MainExit == main_exit

MenuAdd == \E i \in MenuAddInputs : menu_add(i[1], i[2], i[3], i[4], MenuFaults)

MenuDelete ==
    \E expense_id \in IdTexts, fault \in MenuFaults :
        menu_delete_expense(expense_id, fault)

Next ==
    ApiCreate \/ ApiDelete \/ ApiList \/ MainStart \/ MainExit \/ MenuAdd
        \/ MenuDelete

Spec == Init /\ [][Next]_vars

----------------------------------------------------------------------------
(* The aggregation queries: summaries, insights, the date-range filter.    *)

\* A variant of Summaries that adds each distinct amount of a day once
\* (SUM(DISTINCT amount)).
SummariesDistinct(t) ==
    LET days == {r.date : r \in t}
        n == Cardinality(days)
        q == CHOOSE f \in [1..n -> days] :
                \A i, j \in 1..n : i < j => DateNum(f[i]) > DateNum(f[j])
    IN  [i \in 1..n |->
            [date |-> FormatDate(q[i]),
             total |-> SumAmount({[amount |-> a] :
                                    a \in {r.amount : r \in {x \in t : x.date = q[i]}}})]]

\* SELECT DATE_FORMAT(date, '%Y-%m-%d'), SUM(amount) FROM expenses
\* GROUP BY DATE_FORMAT(date, '%Y-%m-%d') ORDER BY date DESC.
Summaries(t) ==
    LET days == {r.date : r \in t}
        n == Cardinality(days)
        q == CHOOSE f \in [1..n -> days] :
                \A i, j \in 1..n : i < j => DateNum(f[i]) > DateNum(f[j])
    IN  [i \in 1..n |->
            [date |-> FormatDate(q[i]),
             total |-> SumAmount({r \in t : r.date = q[i]})]]

\* SELECT COUNT(*) FROM expenses.
CountAll(t) == Cardinality(t)

\* A variant of Avg that divides by the number of categories in use.
AvgPerCategory(t) ==
    LET sum == SumAmount(t)
        n == Cardinality({r.category : r \in t})
        g == Gcd(sum, n)
    IN  [num |-> sum \div g, den |-> n \div g]

\* SELECT AVG(amount) FROM expenses: the quotient, as a reduced fraction.
Avg(t) ==
    LET sum == SumAmount(t)
        n == Cardinality(t)
        g == Gcd(sum, n)
    IN  [num |-> sum \div g, den |-> n \div g]

\* SELECT MAX(amount) FROM expenses.
Max(t) == CHOOSE a \in {r.amount : r \in t} : \A r \in t : r.amount <= a

\* SELECT category, COUNT(*) as count FROM expenses GROUP BY category.
CategoryCount(t, c) == Cardinality({r \in t : r.category = c})

\* ... ORDER BY count DESC LIMIT 1: the groups that may come first. The
\* statement orders by the count alone, so any group of the largest count may.
TopCategories(t) ==
    {c \in {r.category : r \in t} :
        \A d \in {r.category : r \in t} : CategoryCount(t, d) <= CategoryCount(t, c)}

\* A variant of Between that leaves the end date out.
BetweenOpen(t, start, end) ==
    {r \in t : /\ DateNum(StoreDate(start)) <= DateNum(r.date)
               /\ DateNum(r.date) < DateNum(StoreDate(end))}

\* WHERE date BETWEEN %s AND %s, the two texts converted to dates.
Between(t, start, end) ==
    {r \in t : /\ DateNum(StoreDate(start)) <= DateNum(r.date)
               /\ DateNum(r.date) <= DateNum(StoreDate(end))}

\* One fetched row of filter_by_date_range: date, category, amount, description.
FilterRow(r) ==
    [date |-> FormatDate(r.date), category |-> r.category, amount |-> r.amount,
     description |-> r.description]

\* A read-only endpoint or menu function: the connections the API holds when
\* an endpoint has returned; the menu's connection stays as it is.
Quiet(l) ==
    /\ (l.fe = "menu") => (menuConn = "open")
    /\ last' = l
    /\ apiOpen' = IF l.fe = "api"
                  THEN apiOpen + finally_close(
                                     get_db_connection(IF l.outcome = "StorageError"
                                                       THEN l.field ELSE "none"),
                                     l.outcome)
                  ELSE apiOpen
    /\ UNCHANGED <<table, nextId, usedIds, deletedIds, pending, menuConn, failed>>

\* GET /api/summaries.
get_summaries(fault) ==
    IF fault # "none" THEN
        Quiet(Op("summaries", "api", NoReq, NoId, "StorageError", fault, <<>>, table,
                 Sent(fault, "SELECT"), NoPrev))
    ELSE
        Quiet(Op("summaries", "api", NoReq, NoId, "Ok", "", Summaries(table), table,
                 <<"SELECT">>, NoPrev))

\* view_summaries(cursor).
view_summaries(fault) ==
    IF fault # "none" THEN
        Quiet(Op("summaries", "menu", NoReq, NoId, "StorageError", fault, <<>>, table,
                 Sent(fault, "SELECT"), NoPrev))
    ELSE IF Summaries(View(table, pending)) = <<>> THEN
        Quiet(Op("summaries", "menu", NoReq, NoId, "NoExpenses", "", <<>>, table,
                 <<"SELECT">>, NoPrev))
    ELSE
        Quiet(Op("summaries", "menu", NoReq, NoId, "Ok", "", Summaries(View(table, pending)), table,
                 <<"SELECT">>, NoPrev))

\* GET /api/insights.
get_insights(fault) ==
    IF fault # "none" THEN
        Quiet(Op("insights", "api", NoReq, NoId, "StorageError", fault, <<>>, table,
                 Sent(fault, "SELECT"), NoPrev))
    ELSE IF CountAll(table) = 0 THEN
        Quiet(Op("insights", "api", NoReq, NoId, "Empty", "",
                 [average_spending |-> [num |-> 0, den |-> 1], highest_expense |-> 0,
                  most_common_category |-> None, category_count |-> 0],
                 table, <<"SELECT">>, NoPrev))
    ELSE
        \E c \in TopCategories(table) :
            Quiet(Op("insights", "api", NoReq, NoId, "Ok", "",
                     [average_spending |-> Avg(table), highest_expense |-> Max(table),
                      most_common_category |-> c,
                      category_count |-> CategoryCount(table, c)],
                     table, <<"SELECT", "SELECT", "SELECT", "SELECT">>, PrevInsights))

\* generate_insights(cursor): the values it fetches and prints.
generate_insights(fault) ==
    IF fault # "none" THEN
        Quiet(Op("insights", "menu", NoReq, NoId, "StorageError", fault, <<>>, table,
                 Sent(fault, "SELECT"), NoPrev))
    ELSE IF CountAll(View(table, pending)) = 0 THEN
        Quiet(Op("insights", "menu", NoReq, NoId, "Empty", "", <<>>, table,
                 <<"SELECT">>, NoPrev))
    ELSE
        \E c \in TopCategories(View(table, pending)) :
            Quiet(Op("insights", "menu", NoReq, NoId, "Ok", "",
                     [average_spending |-> Avg(View(table, pending)), highest_expense |-> Max(View(table, pending)),
                      most_common_category |-> c,
                      category_count |-> CategoryCount(View(table, pending), c)],
                     table, <<"SELECT", "SELECT", "SELECT", "SELECT">>, PrevInsights))

\* The two date texts of a range, in req.
RangeReq(start, end) == [start |-> start, end |-> end]

\* filter_by_date_range(cursor), given the texts typed at the two prompts;
\* the end date is read only when the start date passed.
filter_by_date_range(start_date, end_date, fault) ==
    IF ~validate_date(start_date) THEN
        Quiet(Op("filter", "menu", RangeReq(start_date, <<>>), NoId,
                 "ValidationError", "start", <<>>, table, <<>>, NoPrev))
    ELSE IF ~validate_date(end_date) THEN
        Quiet(Op("filter", "menu", RangeReq(start_date, end_date), NoId,
                 "ValidationError", "end", <<>>, table, <<>>, NoPrev))
    ELSE IF fault # "none" THEN
        Quiet(Op("filter", "menu", RangeReq(start_date, end_date), NoId,
                 "StorageError", fault, <<>>, table, Sent(fault, "SELECT"), NoPrev))
    ELSE IF Between(View(table, pending), start_date, end_date) = {} THEN
        Quiet(Op("filter", "menu", RangeReq(start_date, end_date), NoId,
                 "NoExpenses", "", [rows |-> <<>>], table, <<"SELECT">>, NoPrev))
    ELSE
        \E q \in OrderByDateDesc(Between(View(table, pending), start_date, end_date)) :
            Quiet(Op("filter", "menu", RangeReq(start_date, end_date), NoId, "Ok", "",
                     [rows |-> [i \in 1..Len(q) |-> FilterRow(q[i])],
                      total |-> SumSeq(q)],
                     table, <<"SELECT">>, NoPrev))

\* The rows the query specification builds its ledgers from: for each id,
\* no row or one row.
LedgerDates == {StoreDate(D_2024_01_01), StoreDate(D_2024_01_02)}
LedgerChoice ==
    [present : {TRUE}, date : LedgerDates, category : GoodCategories,
     amount : GoodAmounts]
    \cup
    [present : {FALSE}, date : {StoreDate(D_2024_01_01)}, category : {"Food"},
     amount : {500}]

\* Every ledger of at most MaxLedger rows with ids of 1..MaxLedger.
Ledgers ==
    { { [id |-> i, date |-> f[i].date, category |-> f[i].category,
         amount |-> f[i].amount, description |-> ""] :
          i \in {j \in 1..MaxLedger : f[j].present} } :
      f \in [1..MaxLedger -> LedgerChoice] }

FilterDates == {D_2024_01_01, D_2024_01_02, D_2024_1_2, D_2024_13_01}

InitQuery ==
    /\ table \in Ledgers
    /\ nextId = MaxLedger + 1
    /\ usedIds = 1..MaxLedger
    /\ deletedIds = (1..MaxLedger) \ Ids(table)
    /\ last = NoOp
    /\ pending = NoPending
    /\ menuConn = "open"
    /\ apiOpen = 0
    /\ failed = {}

ApiSummaries == \E fault \in ApiFaults : get_summaries(fault)
MenuSummaries == \E fault \in MenuFaults : view_summaries(fault)
ApiInsights == \E fault \in ApiFaults : get_insights(fault)
MenuInsights == \E fault \in MenuFaults : generate_insights(fault)
MenuFilter ==
    \E start_date \in FilterDates, end_date \in FilterDates, fault \in MenuFaults :
        filter_by_date_range(start_date, end_date, fault)

NextQuery == ApiSummaries \/ MenuSummaries \/ ApiInsights \/ MenuInsights \/ MenuFilter

SpecQuery == InitQuery /\ [][NextQuery]_vars

----------------------------------------------------------------------------
(* Every endpoint of the API and the menu's add and delete, when a commit  *)
(* may raise as well.                                                      *)

\* The requests tried: two that pass every check, and two with a bad amount.
CommitCreates ==
    [date : {D_2024_01_01}, category : {"Food", "Transport"}, amount : {500, 0},
     description : {""}]
CommitMenuAdds ==
    {D_2024_01_01} \X {Num(1), Num(2)} \X {Num(1000), Num(0)} \X {"lunch"}

CommitApiCreate == \E e \in CommitCreates : create_expense(e, ApiCommitFaults)

CommitApiDelete ==
    \E expense_id \in 1..(MaxId + 1), fault \in ApiCommitFaults :
        api_delete_expense(expense_id, fault)

CommitApiList == \E fault \in {"none"} : get_expenses(fault)

CommitMenuAdd ==
    \E i \in CommitMenuAdds : menu_add(i[1], i[2], i[3], i[4], MenuCommitFaults)

CommitMenuDelete ==
    \E expense_id \in IdTexts, fault \in MenuCommitFaults :
        menu_delete_expense(expense_id, fault)

NextCommit ==
    CommitApiCreate \/ CommitApiDelete \/ CommitApiList \/ ApiSummaries
        \/ ApiInsights \/ MainStart \/ MainExit \/ CommitMenuAdd
        \/ CommitMenuDelete

SpecCommit == Init /\ [][NextCommit]_vars

----------------------------------------------------------------------------
(* validate_date on its own.                                               *)

validate_date_call(s) ==
    Quiet(Op("validate_date", "", Req(s, "", 0, TRUE, ""), NoId,
             IF validate_date(s) THEN "True" ELSE "False", "", <<>>, table, <<>>,
             NoPrev))

ValidateDate == \E s \in DateStrings : validate_date_call(s)

SpecDate == Init /\ [][ValidateDate]_vars

----------------------------------------------------------------------------
(* What the properties are stated with.                                    *)

\* s is written YYYY-MM-DD (four, two and two digits, hyphens between) and
\* names a day of the calendar.
IsIsoCalendarDate(s) ==
    /\ Len(s) = 10
    /\ \A p \in {1, 2, 3, 4, 6, 7, 9, 10} : IsDigit(s[p])
    /\ s[5] = "-"
    /\ s[8] = "-"
    /\ LET y == 1000 * DigitVal(s[1]) + 100 * DigitVal(s[2])
                  + 10 * DigitVal(s[3]) + DigitVal(s[4])
           m == 10 * DigitVal(s[6]) + DigitVal(s[7])
           d == 10 * DigitVal(s[9]) + DigitVal(s[10])
       IN  /\ y >= 1
           /\ m >= 1
           /\ m <= 12
           /\ d >= 1
           /\ d <= DaysInMonth(y, m)

\* The fields of a create request that fail their validator.
FailingFields(req) ==
    (IF validate_date(req.date) THEN {} ELSE {"date"})
    \cup (IF req.numeric /\ req.amount > 0 THEN {} ELSE {"amount"})
    \cup (IF req.category \in CategorySet THEN {} ELSE {"category"})

\* The day number of a text written YYYY-MM-DD.
IsoNum(s) ==
    10000 * (1000 * DigitVal(s[1]) + 100 * DigitVal(s[2])
                + 10 * DigitVal(s[3]) + DigitVal(s[4]))
    + 100 * (10 * DigitVal(s[6]) + DigitVal(s[7]))
    + 10 * DigitVal(s[9]) + DigitVal(s[10])

\* The amounts of the rows of S with ids 1..n added up, id by id.
RECURSIVE AmountSum(_, _)
AmountSum(S, n) ==
    IF n = 0 THEN 0
    ELSE (IF \E r \in S : r.id = n
          THEN (CHOOSE r \in S : r.id = n).amount
          ELSE 0) + AmountSum(S, n - 1)

\* The rows of a ledger dated as the text ds says.
RowsOn(t, ds) == {r \in t : FormatDate(r.date) = ds}

\* The rows of a ledger in a category.
RowsIn(t, c) == {r \in t : r.category = c}

\* The positions of a listing that carry the id.
Carrying(result, id) == {i \in 1..Len(result) : result[i].id = id}

----------------------------------------------------------------------------
(* C1..C5: the ledger under creates and deletes.                           *)

\* C1: in every state reached by creates and deletes through the API or the
\* menu, every persisted row has an amount strictly greater than zero and a
\* category of the fixed set.
C1_PersistedRowsValid ==
    \A r \in table : r.amount > 0 /\ r.category \in CategorySet

\* C1 witness: a row added through the menu is persisted after an earlier
\* row was deleted.
C1_Witness ==
    /\ last.op = "create"
    /\ last.fe = "menu"
    /\ last.outcome = "Created"
    /\ deletedIds # {}
    /\ table # {}

\* C2: a create whose date, amount or category fails its validator is
\* rejected with a validation error naming a failing field, sends nothing to
\* the store, and leaves the persisted rows (and their count) as they were.
C2_InvalidCreateRejected ==
    (last.op = "create" /\ FailingFields(last.req) # {}) =>
        /\ last.outcome = "ValidationError"
        /\ last.field \in FailingFields(last.req)
        /\ last.stmts = <<>>
        /\ table = last.before
        /\ Cardinality(table) = Cardinality(last.before)

\* C2 witness: a request with a non-positive amount was rejected while the
\* ledger held a row.
C2_Witness ==
    /\ last.op = "create"
    /\ last.outcome = "ValidationError"
    /\ last.field = "amount"
    /\ last.req.amount <= 0
    /\ table # {}

\* C3: the id of a successful create is the store's, is the id of no row that
\* exists or ever existed before (no reuse after deletion), and no two
\* persisted rows share an id.
C3_IdsFreshAndUnique ==
    /\ \A r1, r2 \in table : r1.id = r2.id => r1 = r2
    /\ (last.op = "create" /\ last.outcome = "Created") =>
          /\ last.id \notin Ids(last.before)
          /\ last.id \notin deletedIds
          /\ last.id \in usedIds
          /\ Cardinality({r \in table : r.id = last.id}) = 1
          /\ Ids(table) = Ids(last.before) \cup {last.id}

\* C3 witness: a create succeeds after a row was deleted.
C3_Witness ==
    /\ last.op = "create"
    /\ last.outcome = "Created"
    /\ deletedIds # {}

\* C4: a delete of the id of an existing row reports Deleted, removing that
\* one row with a commit, and every later delete of the same id reports
\* NotFound, an outcome other than a storage failure.
C4_DeleteOnceThenNotFound ==
    (last.op = "delete" /\ last.id # NoId /\ last.outcome # "StorageError") =>
        /\ last.id \in Ids(last.before) =>
              /\ last.outcome = "Deleted"
              /\ Cardinality(last.before) - Cardinality(table) = 1
              /\ last.id \notin Ids(table)
              /\ last.id \in deletedIds
              /\ last.stmts[Len(last.stmts)] = "COMMIT"
        /\ last.id \notin Ids(last.before) =>
              /\ last.outcome = "NotFound"
              /\ table = last.before

\* C4 witness: the menu reports NotFound for an id that was deleted before.
C4_Witness ==
    /\ last.op = "delete"
    /\ last.fe = "menu"
    /\ last.outcome = "NotFound"
    /\ last.id \in deletedIds

\* C5: after a successful create of a valid request (its date written
\* YYYY-MM-DD), the listing that follows holds exactly one row with the
\* created id, that row has the given date, category, amount and description,
\* and every row that existed before the create is listed unchanged.
C5_CreateThenList ==
    (/\ last.op = "list"
     /\ last.outcome = "Ok"
     /\ last.prev.id # NoId
     /\ IsIsoCalendarDate(last.prev.req.date)) =>
        /\ Cardinality(Carrying(last.result, last.prev.id)) = 1
        /\ \A i \in Carrying(last.result, last.prev.id) :
              /\ last.result[i].date = last.prev.req.date
              /\ last.result[i].category = last.prev.req.category
              /\ last.result[i].amount = last.prev.req.amount
              /\ last.result[i].description = last.prev.req.description
        /\ Len(last.result) = Cardinality(last.prev.before) + 1
        /\ \A r \in last.prev.before :
              \E i \in 1..Len(last.result) :
                  /\ last.result[i].id = r.id
                  /\ last.result[i].date = FormatDate(r.date)
                  /\ last.result[i].category = r.category
                  /\ last.result[i].amount = r.amount
                  /\ last.result[i].description = r.description

\* C5 witness: a listing right after a create into a ledger that already
\* held a row with another description.
C5_Witness ==
    /\ last.op = "list"
    /\ last.outcome = "Ok"
    /\ last.prev.id # NoId
    /\ IsIsoCalendarDate(last.prev.req.date)
    /\ last.prev.req.description = "lunch"
    /\ \E r \in last.prev.before : r.description = ""

----------------------------------------------------------------------------
(* C6..C9: the aggregation queries over every ledger.                      *)

\* C6: summaries returns one entry per distinct date that has a row (none
\* for other dates, the empty sequence for the empty ledger), each total is
\* the sum of the amounts of the rows of that date, and the entries come in
\* strictly descending order of date.
C6_SummariesPerDay ==
    (last.op = "summaries" /\ last.outcome # "StorageError") =>
        LET res == last.result
            t == last.before
        IN  /\ Len(res) = Cardinality({FormatDate(r.date) : r \in t})
            /\ \A r \in t : \E i \in 1..Len(res) : res[i].date = FormatDate(r.date)
            /\ \A i \in 1..Len(res) :
                  /\ RowsOn(t, res[i].date) # {}
                  /\ res[i].total = AmountSum(RowsOn(t, res[i].date), nextId - 1)
            /\ \A i, j \in 1..Len(res) :
                  i < j => IsoNum(res[i].date) > IsoNum(res[j].date)
            /\ (t = {}) => (res = <<>>)

\* C6 witness: two rows of 2024-01-01 (500 and 1000) and one of 2024-01-02
\* (500) give the later day first with 500, then the earlier day with 1500.
C6_Witness ==
    /\ last.op = "summaries"
    /\ last.outcome = "Ok"
    /\ Cardinality(last.before) = 3
    /\ last.result = << [date |-> D_2024_01_02, total |-> 500],
                        [date |-> D_2024_01_01, total |-> 1500] >>

\* C7: insights on the empty ledger gives the empty result (zero average,
\* zero highest, no category, zero count), not an error; on any other ledger
\* the average is the sum of the amounts over the number of rows, the highest
\* is the largest amount, the category is one whose count no category
\* exceeds, and the count is the number of rows of that category.
C7_Insights ==
    (last.op = "insights" /\ last.outcome # "StorageError") =>
        LET res == last.result
            t == last.before
        IN  IF t = {} THEN
                /\ last.outcome = "Empty"
                /\ (last.fe = "api") =>
                      /\ res.average_spending.num = 0
                      /\ res.highest_expense = 0
                      /\ res.most_common_category = None
                      /\ res.category_count = 0
            ELSE
                /\ last.outcome = "Ok"
                /\ res.average_spending.den > 0
                /\ res.average_spending.num * Cardinality(t)
                      = AmountSum(t, nextId - 1) * res.average_spending.den
                /\ \E r \in t : r.amount = res.highest_expense
                /\ \A r \in t : r.amount <= res.highest_expense
                /\ res.most_common_category \in CategorySet
                /\ \A c \in CategorySet :
                      Cardinality(RowsIn(t, c))
                          <= Cardinality(RowsIn(t, res.most_common_category))
                /\ res.category_count
                      = Cardinality(RowsIn(t, res.most_common_category))

\* C7 witness: Food 1000, Food 500 and Transport 500 give the average
\* 2000/3, the highest 1000 and Food with 2 rows.
C7_Witness ==
    /\ last.op = "insights"
    /\ last.outcome = "Ok"
    /\ Cardinality(last.before) = 3
    /\ last.result.average_spending = [num |-> 2000, den |-> 3]
    /\ last.result.highest_expense = 1000
    /\ last.result.most_common_category = "Food"
    /\ last.result.category_count = 2

\* C8: when categories tie for the largest count, insights names the same
\* category every time it is asked about the same rows.
C8_TieBreakDeterministic ==
    (/\ last.op = "insights"
     /\ last.outcome = "Ok"
     /\ last.prev.category # ""
     /\ last.prev.before = last.before) =>
        last.result.most_common_category = last.prev.category

\* C9: for valid start and end dates the filter returns exactly the rows with
\* start <= date <= end, in descending order of date, with the sum of their
\* amounts as the total; a start after the end gives no rows and no error.
C9_FilterByDateRange ==
    (/\ last.op = "filter"
     /\ last.outcome \notin {"StorageError", "ValidationError"}) =>
        LET t == last.before
            lo == DateNum(StoreDate(last.req.start))
            hi == DateNum(StoreDate(last.req.end))
            In == {r \in t : lo <= DateNum(r.date) /\ DateNum(r.date) <= hi}
            rows == last.result.rows
        IN  /\ last.outcome \in {"Ok", "NoExpenses"}
            /\ Len(rows) = Cardinality(In)
            /\ \A r \in In :
                  Cardinality({i \in 1..Len(rows) : rows[i] = FilterRow(r)})
                      = Cardinality({x \in In : FilterRow(x) = FilterRow(r)})
            /\ \A i, j \in 1..Len(rows) :
                  i < j => IsoNum(rows[i].date) >= IsoNum(rows[j].date)
            /\ (last.outcome = "Ok") =>
                  last.result.total = AmountSum(In, nextId - 1)
            /\ (last.outcome = "NoExpenses") <=> (In = {})
            /\ (lo > hi) => (rows = <<>> /\ last.outcome = "NoExpenses")

\* C9 witness: a range from 2024-01-01 to 2024-01-02 returns three rows, the
\* first of the end date and the last of the start date.
C9_Witness ==
    /\ last.op = "filter"
    /\ last.outcome = "Ok"
    /\ last.req.start = D_2024_01_01
    /\ last.req.end = D_2024_01_02
    /\ Len(last.result.rows) = 3
    /\ last.result.rows[1].date = D_2024_01_02
    /\ last.result.rows[3].date = D_2024_01_01

\* The filter with a start after the end, over a ledger that has rows.
C9_EmptyRangeReached ==
    /\ last.op = "filter"
    /\ last.req.start = D_2024_01_02
    /\ last.req.end = D_2024_01_01
    /\ last.before # {}
    /\ last.outcome = "NoExpenses"

----------------------------------------------------------------------------
(* C10: validate_date.                                                     *)

\* C10: validate_date returns true exactly for the texts written YYYY-MM-DD
\* that name a day of the calendar.
C10_ValidateDateIffIso ==
    (last.op = "validate_date") =>
        ((last.outcome = "True") <=> IsIsoCalendarDate(last.req.date))

\* What validate_date does keep: every text written YYYY-MM-DD that names a
\* day is accepted, and every accepted text names a day of the calendar.
ValidateDateSound ==
    (last.op = "validate_date") =>
        /\ IsIsoCalendarDate(last.req.date) => (last.outcome = "True")
        /\ (last.outcome = "True") =>
              /\ IsIsoCalendarDate(FormatDate(StoreDate(last.req.date)))
              /\ Len(last.req.date) \in 8..10

----------------------------------------------------------------------------
(* C11: creates that end in a storage error.                               *)

\* C11: the row of a create whose INSERT ran and whose commit raised is not
\* among the persisted rows when the call returns, and no later operation
\* makes it persistent.
C11_FailedCreateNotPersisted ==
    \A f \in failed : f.id \notin Ids(table)

\* A create that ends in a storage error leaves the persisted rows as they
\* were when it began.
FailedCreateAbsentAtReturn ==
    (last.op = "create" /\ last.outcome = "StorageError") => table = last.before

\* The row of a create the API reported a storage error for is never
\* persisted: its connection is closed before the endpoint returns.
ApiFailedCreateDiscarded ==
    \A f \in failed : f.fe = "api" => f.id \notin Ids(table)

\* A row of a failed create is persisted only by a later commit on the
\* menu's connection.
FailedCreatePersistedByMenuCommit ==
    (\E f \in failed : f.id \in Ids(table) /\ f.id \notin Ids(last.before)) =>
        /\ last.fe = "menu"
        /\ last.outcome \in {"Created", "Deleted"}
        /\ \E f \in failed : f.fe = "menu" /\ f.id \in Ids(table)

----------------------------------------------------------------------------
(* C12: connections.                                                       *)

----------------------------------------------------------------------------
(* C13: what a delete leaves alone.                                        *)

DeleteNotFoundReached ==
    /\ last.op = "delete"
    /\ last.fe = "api"
    /\ last.outcome = "NotFound"
    /\ table # {}

====
